---- MODULE Spec2Model ----
(***************************************************************************)
(* GitHubScrobbler (src/core/scrobbler/github-scrobbler.ts): a scrobbler   *)
(* that writes every playback event as a file into each configured GitHub  *)
(* repository.  The module models the event operations, the request        *)
(* builder, the path derivation, the fan-out of fetch requests under one   *)
(* timeout, and the reduction of the responses to a ServiceCallResult.     *)
(*                                                                         *)
(* JavaScript strings that reach btoa are sequences of UTF-16 code units   *)
(* (naturals); strings that only get concatenated are TLA+ strings.        *)
(* A timestamp (Date.now(), epoch milliseconds) is the record              *)
(* [s |-> whole seconds, ms |-> 0..999], its value being 1000*s + ms.      *)
(***************************************************************************)
EXTENDS Integers, Sequences, FiniteSets, TLC

(***************************************************************************)
(* Bounds of the model.                                                    *)
(***************************************************************************)
\* most destinations in arrayProperties
MaxDests == 2
\* most songs in one scrobble() call
MaxSongs == 2
\* number of event operations invoked in one behaviour
MaxCalls == 1
\* number of event operations invoked in one behaviour of overlapping calls
OverlapCalls == 2

(***************************************************************************)
(* Values.                                                                 *)
(***************************************************************************)
\* the value undefined, and the text it reads as when used as a string
undefined == [undefined |-> TRUE]
Undefined == "undefined"

RESULT_OK == "RESULT_OK"
ERROR_AUTH == "ERROR_AUTH"
ERROR_OTHER == "ERROR_OTHER"

baseUrl == "https://api.github.com/"

\* UTF-16 code units of the literal text fragments the serializer emits
CodeUnits ==
    "{\"eventName\":\"" :> <<123, 34, 101, 118, 101, 110, 116, 78, 97, 109, 101, 34, 58, 34>> @@
    "\",\"time\":" :> <<34, 44, 34, 116, 105, 109, 101, 34, 58>> @@
    ",\"data\":" :> <<44, 34, 100, 97, 116, 97, 34, 58>> @@
    "\"song\":" :> <<34, 115, 111, 110, 103, 34, 58>> @@
    "\"songs\":" :> <<34, 115, 111, 110, 103, 115, 34, 58>> @@
    "\"isLoved\":" :> <<34, 105, 115, 76, 111, 118, 101, 100, 34, 58>> @@
    "\"currentlyPlaying\":" :> <<34, 99, 117, 114, 114, 101, 110, 116, 108, 121, 80, 108, 97, 121, 105, 110, 103, 34, 58>> @@
    "{\"track\":\"" :> <<123, 34, 116, 114, 97, 99, 107, 34, 58, 34>> @@
    "\"}" :> <<34, 125>> @@
    "true" :> <<116, 114, 117, 101>> @@
    "false" :> <<102, 97, 108, 115, 101>> @@
    "{" :> <<123>> @@
    "}" :> <<125>> @@
    "[" :> <<91>> @@
    "]" :> <<93>> @@
    "," :> <<44>> @@
    "nowplaying" :> <<110, 111, 119, 112, 108, 97, 121, 105, 110, 103>> @@
    "paused" :> <<112, 97, 117, 115, 101, 100>> @@
    "resumedplaying" :> <<114, 101, 115, 117, 109, 101, 100, 112, 108, 97, 121, 105, 110, 103>> @@
    "scrobble" :> <<115, 99, 114, 111, 98, 98, 108, 101>> @@
    "loved" :> <<108, 111, 118, 101, 100>>

(***************************************************************************)
(* Number and date conversions (Number -> String, Date getters).           *)
(***************************************************************************)
RECURSIVE DecimalUnits(_)
\* code units of the decimal representation of a natural
DecimalUnits(n) ==
    IF n < 10 THEN <<48 + n>>
    ELSE Append(DecimalUnits(n \div 10), 48 + (n % 10))

Pad3(n) ==
    IF n < 10 THEN "00" \o ToString(n)
    ELSE IF n < 100 THEN "0" \o ToString(n)
    ELSE ToString(n)

Pad3Units(n) ==
    IF n < 10 THEN <<48, 48>> \o DecimalUnits(n)
    ELSE IF n < 100 THEN <<48>> \o DecimalUnits(n)
    ELSE DecimalUnits(n)

\* String(time): the decimal text of 1000*s + ms
TimeString(t) ==
    IF t.s = 0 THEN ToString(t.ms) ELSE ToString(t.s) \o Pad3(t.ms)

TimeUnits(t) ==
    IF t.s = 0 THEN DecimalUnits(t.ms) ELSE DecimalUnits(t.s) \o Pad3Units(t.ms)

\* days since 1970-01-01 of the UTC day a timestamp lies in
UTCDays(t) == t.s \div 86400

\* the proleptic Gregorian date of a day number: [year, month (1..12), date]
CivilFromDays(days) ==
    LET z == days + 719468
        era == z \div 146097
        doe == z - era * 146097
        yoe == (doe - (doe \div 1460) + (doe \div 36524) - (doe \div 146096)) \div 365
        doy == doe - (365 * yoe + (yoe \div 4) - (yoe \div 100))
        mp == (5 * doy + 2) \div 153
        d == doy - ((153 * mp + 2) \div 5) + 1
        m == IF mp < 10 THEN mp + 3 ELSE mp - 9
    IN  [year |-> yoe + era * 400 + (IF m <= 2 THEN 1 ELSE 0), month |-> m, date |-> d]

getUTCFullYear(t) == CivilFromDays(UTCDays(t)).year
\* zero-based: January is 0
getUTCMonth(t) == CivilFromDays(UTCDays(t)).month - 1
\* day of the week, Sunday is 0; 1970-01-01 was a Thursday
getUTCDay(t) == (UTCDays(t) + 4) % 7

(***************************************************************************)
(* JSON.stringify of a GitHubRequest.  A song is an object with one string *)
(* property; a property whose value is undefined is left out of the text.  *)
(***************************************************************************)
RECURSIVE JoinUnits(_, _)
\* the texts of a sequence, separated by sep
JoinUnits(texts, sep) ==
    IF Len(texts) = 0 THEN <<>>
    ELSE IF Len(texts) = 1 THEN texts[1]
    ELSE texts[1] \o sep \o JoinUnits(Tail(texts), sep)

SongJSON(song) == CodeUnits["{\"track\":\""] \o song.track \o CodeUnits["\"}"]

RECURSIVE SongTexts(_)
SongTexts(songs) ==
    IF Len(songs) = 0 THEN <<>> ELSE <<SongJSON(Head(songs))>> \o SongTexts(Tail(songs))

BoolJSON(b) == IF b THEN CodeUnits["true"] ELSE CodeUnits["false"]

\* the members of request.data in insertion order: song, songs, isLoved,
\* currentlyPlaying; absent and undefined properties produce no member
DataMembers(data) ==
    (IF "song" \in DOMAIN data /\ data.song # undefined
        THEN <<CodeUnits["\"song\":"] \o SongJSON(data.song)>> ELSE <<>>)
    \o (IF "songs" \in DOMAIN data
        THEN <<CodeUnits["\"songs\":"] \o CodeUnits["["]
               \o JoinUnits(SongTexts(data.songs), CodeUnits[","]) \o CodeUnits["]"]>>
        ELSE <<>>)
    \o (IF "isLoved" \in DOMAIN data
        THEN <<CodeUnits["\"isLoved\":"] \o BoolJSON(data.isLoved)>> ELSE <<>>)
    \o (IF "currentlyPlaying" \in DOMAIN data
        THEN <<CodeUnits["\"currentlyPlaying\":"] \o BoolJSON(data.currentlyPlaying)>>
        ELSE <<>>)

\* the text of request.data
DataJSON(data) ==
    CodeUnits["{"] \o JoinUnits(DataMembers(data), CodeUnits[","]) \o CodeUnits["}"]

JSONstringify(request) ==
    CodeUnits["{\"eventName\":\""] \o CodeUnits[request.eventName]
    \o CodeUnits["\",\"time\":"] \o TimeUnits(request.time)
    \o CodeUnits[",\"data\":"] \o DataJSON(request.data)
    \o CodeUnits["}"]

(***************************************************************************)
(* btoa.  A base64 text is a sequence of alphabet indices 0..63, with 64    *)
(* standing for the padding character '='.                                 *)
(***************************************************************************)
RECURSIVE Base64Encode(_)
Base64Encode(bytes) ==
    IF Len(bytes) = 0 THEN <<>>
    ELSE IF Len(bytes) = 1 THEN
        <<bytes[1] \div 4, (bytes[1] % 4) * 16, 64, 64>>
    ELSE IF Len(bytes) = 2 THEN
        <<bytes[1] \div 4, (bytes[1] % 4) * 16 + (bytes[2] \div 16), (bytes[2] % 16) * 4, 64>>
    ELSE
        <<bytes[1] \div 4,
          (bytes[1] % 4) * 16 + (bytes[2] \div 16),
          (bytes[2] % 16) * 4 + (bytes[3] \div 64),
          bytes[3] % 64>>
        \o Base64Encode(SubSeq(bytes, 4, Len(bytes)))

\* btoa throws InvalidCharacterError when a code unit is above 0xFF
btoa(units) ==
    IF \E i \in 1..Len(units) : units[i] > 255
        THEN [threw |-> TRUE, value |-> <<>>]
        ELSE [threw |-> FALSE, value |-> Base64Encode(units)]

(***************************************************************************)
(* The request builder and the path derivation of sendRequest.             *)
(***************************************************************************)
NoBody == [message |-> "", committer |-> [name |-> "", email |-> ""], content |-> <<>>]

\* requestInfo.body: the object handed to the outer JSON.stringify; building
\* it throws when btoa throws
RequestBody(request) ==
    LET content == btoa(JSONstringify(request))
    IN  IF content.threw THEN [threw |-> TRUE, value |-> NoBody]
        ELSE [threw |-> FALSE,
              value |-> [message |-> request.eventName \o " at " \o TimeString(request.time),
                         committer |-> [name |-> "WebScrobbler",
                                        email |-> "webscrobbler@github.com"],
                         content |-> content.value]]

\* StoragePath with the day of the month (getUTCDate) as its third segment
StoragePathDayOfMonth(request) ==
    ToString(getUTCFullYear(request.time)) \o "/"
    \o ToString(getUTCMonth(request.time)) \o "/"
    \o ToString(CivilFromDays(UTCDays(request.time)).date) \o "/"
    \o TimeString(request.time) \o "-" \o request.eventName \o ".json"

\* StoragePath without the epoch milliseconds in the file name
StoragePathWithoutMillis(request) ==
    ToString(getUTCFullYear(request.time)) \o "/"
    \o ToString(getUTCMonth(request.time)) \o "/"
    \o ToString(getUTCDay(request.time)) \o "/"
    \o request.eventName \o ".json"

\* the value substituted for {path}
StoragePath(request) ==
    ToString(getUTCFullYear(request.time)) \o "/"
    \o ToString(getUTCMonth(request.time)) \o "/"
    \o ToString(getUTCDay(request.time)) \o "/"
    \o TimeString(request.time) \o "-" \o request.eventName \o ".json"

RECURSIVE Split(_, _)
\* applicationName.split("/"): applicationName is a sequence of characters
Split(chars, current) ==
    IF Len(chars) = 0 THEN <<current>>
    ELSE IF Head(chars) = "/" THEN <<current>> \o Split(Tail(chars), "")
    ELSE Split(Tail(chars), current \o Head(chars))

\* parts[i] used as a replacement string: a missing element reads "undefined"
Part(parts, i) == IF i <= Len(parts) THEN parts[i] ELSE Undefined

targetUrl(props, request) ==
    LET parts == Split(props.applicationName, "")
    IN  baseUrl \o "repos/" \o Part(parts, 1) \o "/" \o Part(parts, 2)
        \o "/contents/" \o StoragePath(request)

\* FetchCall with a headers object that is not spread from requestInfo.headers
FetchCallHeadersReplaced(props, request, body) ==
    [url |-> targetUrl(props, request),
     method |-> "PUT",
     headers |-> [Authorization |-> "Bearer " \o props.userApiUrl],
     body |-> body]

\* the arguments of the fetch call for one destination
FetchCall(props, request, body) ==
    [url |-> targetUrl(props, request),
     method |-> "PUT",
     headers |-> [ContentType |-> "application/json",
                  Authorization |-> "Bearer " \o props.userApiUrl],
     body |-> body]

(***************************************************************************)
(* Inputs.                                                                 *)
(***************************************************************************)
\* track titles: "a", U+00E9 (a code unit btoa accepts) and U+3042 (a code
\* unit above 0xFF)
Tracks == {<<97>>, <<233>>, <<12354>>}
Songs == [track : Tracks]
SongLists == UNION {[1..n -> Songs] : n \in 0..MaxSongs}

\* values Date.now() returns: 2023-11-14T22:13:20.000Z, 2000-02-29T00:00:00.005Z,
\* 2023-12-31T23:59:59.999Z and 2024-01-01T00:00:00.000Z
Clock ==
    {[s |-> 1700000000, ms |-> 0], [s |-> 951782400, ms |-> 5],
     [s |-> 1704067199, ms |-> 999], [s |-> 1704067200, ms |-> 0]}

\* user-defined array properties: applicationName "a/m" with token "tokenA",
\* applicationName "b/n" with token "tokenB"
Destinations ==
    {[applicationName |-> <<"a", "/", "m">>, userApiUrl |-> "tokenA"],
     [applicationName |-> <<"b", "/", "n">>, userApiUrl |-> "tokenB"]}

\* this.arrayProperties: undefined, or a list of destinations
Configs ==
    {[defined |-> FALSE, items |-> <<>>]}
    \cup {[defined |-> TRUE, items |-> l] :
            l \in UNION {[1..n -> Destinations] : n \in 0..MaxDests}}

Statuses == {200, 201, 404}

CallIds == 1..MaxCalls

(***************************************************************************)
(* State.                                                                  *)
(***************************************************************************)
VARIABLES
    arrayProperties,    \* the configured destinations (set by the host)
    op,                 \* op[c]: the operation of call c, "none" before it is invoked
    request,            \* request[c]: the GitHubRequest call c passed to sendRequest
    dispatched,         \* dispatched[c]: number of sendRequest calls made by call c
    fetches,            \* fetches[c]: the fetch calls of call c, in order, with their state
    timer,              \* timer[c]: the timeout of call c: "unset", "armed", "fired", "cleared"
    sendRequestResult,  \* sendRequestResult[c]: "none", "pending", "rejected" or the value
    opResult,           \* opResult[c]: the promise the operation returned
    sessionResult       \* the promise of the last getSession call

vars == <<arrayProperties, op, request, dispatched, fetches, timer,
          sendRequestResult, opResult, sessionResult>>

NoRequest == [eventName |-> "none", time |-> [s |-> 0, ms |-> 0], data |-> [song |-> undefined]]

Init ==
    /\ arrayProperties \in Configs
    /\ op = [c \in CallIds |-> "none"]
    /\ request = [c \in CallIds |-> NoRequest]
    /\ dispatched = [c \in CallIds |-> 0]
    /\ fetches = [c \in CallIds |-> <<>>]
    /\ timer = [c \in CallIds |-> "unset"]
    /\ sendRequestResult = [c \in CallIds |-> "none"]
    /\ opResult = [c \in CallIds |-> [state |-> "none", value |-> <<>>]]
    /\ sessionResult = [state |-> "none", sessionID |-> ""]

(***************************************************************************)
(* getSession.                                                             *)
(***************************************************************************)
\* NoProperties without the test of the length
NoPropertiesUndefinedOnly == ~arrayProperties.defined

NoProperties == ~arrayProperties.defined \/ Len(arrayProperties.items) = 0

\* getSession without the test of arrayProperties
getSessionAlwaysResolves ==
    /\ sessionResult' = [state |-> "fulfilled", sessionID |-> "webhook"]
    /\ UNCHANGED <<arrayProperties, op, request, dispatched, fetches, timer,
                   sendRequestResult, opResult>>

\* getSession without the test of the length
getSessionIgnoresEmptyList ==
    /\ sessionResult' =
          IF ~arrayProperties.defined THEN [state |-> "rejected", sessionID |-> ""]
          ELSE [state |-> "fulfilled", sessionID |-> "webhook"]
    /\ UNCHANGED <<arrayProperties, op, request, dispatched, fetches, timer,
                   sendRequestResult, opResult>>

getSession ==
    /\ sessionResult' =
          IF NoProperties THEN [state |-> "rejected", sessionID |-> ""]
          ELSE [state |-> "fulfilled", sessionID |-> "webhook"]
    /\ UNCHANGED <<arrayProperties, op, request, dispatched, fetches, timer,
                   sendRequestResult, opResult>>

(***************************************************************************)
(* sendRequest and the event operations.  JavaScript runs a call up to its *)
(* first await without interruption, and runs the continuation of a        *)
(* settled promise before the next timer or network event: one action is   *)
(* one such run.                                                           *)
(***************************************************************************)
\* what an operation resolves to once its sendRequest promise has settled
Returned(name, req, res) ==
    IF res = "pending" THEN [state |-> "pending", value |-> <<>>]
    ELSE IF res = "rejected" THEN [state |-> "rejected", value |-> <<>>]
    ELSE IF name = "scrobble"
        \* new Array(songs.length).fill(res)
        THEN [state |-> "fulfilled", value |-> [i \in 1..Len(req.data.songs) |-> res]]
        ELSE [state |-> "fulfilled", value |-> res]

\* IssuedFetches with the token read from the last element of the list (the
\* loop variable captured by reference)
IssuedFetchesLastToken(props, req, body) ==
    [i \in 1..Len(props) |->
        [call |-> FetchCall([applicationName |-> props[i].applicationName,
                             userApiUrl |-> props[Len(props)].userApiUrl], req, body),
         state |-> "pending", status |-> 0]]

\* the promises pushed by the loop over arrayProperties, all pending
IssuedFetches(props, req, body) ==
    [i \in 1..Len(props) |->
        [call |-> FetchCall(props[i], req, body), state |-> "pending", status |-> 0]]

\* the synchronous part of sendRequest, up to the await
sendRequest(c, req) ==
    /\ request' = [request EXCEPT ![c] = req]
    /\ dispatched' = [dispatched EXCEPT ![c] = @ + 1]
    /\ IF NoProperties THEN
            /\ sendRequestResult' = [sendRequestResult EXCEPT ![c] = ERROR_AUTH]
            /\ UNCHANGED <<fetches, timer>>
       ELSE
            LET body == RequestBody(req)
            IN  IF body.threw THEN
                    /\ sendRequestResult' = [sendRequestResult EXCEPT ![c] = "rejected"]
                    /\ UNCHANGED <<fetches, timer>>
                ELSE
                    /\ fetches' = [fetches EXCEPT
                                      ![c] = IssuedFetches(arrayProperties.items, req,
                                                           body.value)]
                    /\ timer' = [timer EXCEPT ![c] = "armed"]
                    /\ sendRequestResult' = [sendRequestResult EXCEPT ![c] = "pending"]

\* the host invokes operation `name` as call c; calls are numbered in the
\* order of their invocation
Invoked(c, name) ==
    /\ op[c] = "none"
    /\ IF c = 1 THEN TRUE ELSE op[c - 1] # "none"
    /\ op' = [op EXCEPT ![c] = name]
    /\ UNCHANGED <<arrayProperties, sessionResult>>

sendNowPlaying(c, song, now) ==
    /\ Invoked(c, "sendNowPlaying")
    /\ sendRequest(c, [eventName |-> "nowplaying", time |-> now, data |-> [song |-> song]])
    /\ opResult' = [opResult EXCEPT
                       ![c] = Returned(op'[c], request'[c], sendRequestResult'[c])]

sendPaused(c, song, now) ==
    /\ Invoked(c, "sendPaused")
    /\ sendRequest(c, [eventName |-> "paused", time |-> now, data |-> [song |-> song]])
    /\ opResult' = [opResult EXCEPT
                       ![c] = Returned(op'[c], request'[c], sendRequestResult'[c])]

sendResumedPlaying(c, song, now) ==
    /\ Invoked(c, "sendResumedPlaying")
    /\ sendRequest(c, [eventName |-> "resumedplaying", time |-> now,
                       data |-> [song |-> song]])
    /\ opResult' = [opResult EXCEPT
                       ![c] = Returned(op'[c], request'[c], sendRequestResult'[c])]

scrobble(c, songs, currentlyPlaying, now) ==
    /\ Invoked(c, "scrobble")
    /\ sendRequest(c, [eventName |-> "scrobble", time |-> now,
                       data |-> [song |-> IF Len(songs) = 0 THEN undefined ELSE songs[1],
                                 songs |-> songs,
                                 currentlyPlaying |-> currentlyPlaying]])
    /\ opResult' = [opResult EXCEPT
                       ![c] = Returned(op'[c], request'[c], sendRequestResult'[c])]

toggleLove(c, song, isLoved, now) ==
    /\ Invoked(c, "toggleLove")
    /\ sendRequest(c, [eventName |-> "loved", time |-> now,
                       data |-> [song |-> song, isLoved |-> isLoved]])
    /\ opResult' = [opResult EXCEPT
                       ![c] = Returned(op'[c], request'[c], sendRequestResult'[c])]

(***************************************************************************)
(* The await: Promise.all of the fetches raced against the timeout.        *)
(***************************************************************************)
\* Promise.all: rejected once a fetch has rejected, fulfilled once all have
\* fulfilled
PromiseAll(fs) ==
    IF \E i \in 1..Len(fs) : fs[i].state = "rejected" THEN "rejected"
    ELSE IF \A i \in 1..Len(fs) : fs[i].state = "fulfilled" THEN "fulfilled"
    ELSE "pending"

\* ScanResponses with the comparison inverted (=== for !==)
ScanResponsesInverted(fs) ==
    IF \E i \in 1..Len(fs) : fs[i].status = 200 THEN ERROR_OTHER ELSE RESULT_OK

\* ScanResponses accepting every 2xx status (response.ok)
ScanResponsesAny2xx(fs) ==
    IF \E i \in 1..Len(fs) : fs[i].status \notin 200..299 THEN ERROR_OTHER ELSE RESULT_OK

\* ScanResponses looking at the first response only
ScanResponsesFirstOnly(fs) ==
    IF fs[1].status # 200 THEN ERROR_OTHER ELSE RESULT_OK

\* ScanResponses looking at the last response only
ScanResponsesLastOnly(fs) ==
    IF fs[Len(fs)].status # 200 THEN ERROR_OTHER ELSE RESULT_OK

\* the loop over the responses and the final return
ScanResponses(fs) ==
    IF \E i \in 1..Len(fs) : fs[i].status # 200 THEN ERROR_OTHER ELSE RESULT_OK

\* timeoutPromise(timeout, promise): rejects when the timer fires first, and
\* otherwise settles as the promise does
timeoutPromise(t, promise) ==
    IF t = "fired" THEN "rejected" ELSE promise

\* AwaitOutcome with a catch block that logs and falls through to the final
\* return
AwaitOutcomeCatchFallsThrough(t, fs) ==
    LET raced == timeoutPromise(t, PromiseAll(fs))
    IN  IF raced = "pending" THEN "pending"
        ELSE IF raced = "rejected" THEN RESULT_OK
        ELSE ScanResponses(fs)

\* the try/catch around the await: the value sendRequest resolves to once
\* the raced promise has settled, "pending" while it has not
AwaitOutcome(t, fs) ==
    LET raced == timeoutPromise(t, PromiseAll(fs))
    IN  IF raced = "pending" THEN "pending"
        ELSE IF raced = "rejected" THEN ERROR_OTHER
        ELSE ScanResponses(fs)

\* the raced promise settles from Promise.all: the timer is cleared and the
\* continuations of sendRequest and of the operation run
Settle(c, fs) ==
    IF sendRequestResult[c] = "pending" /\ AwaitOutcome(timer[c], fs) # "pending" THEN
        /\ timer' = [timer EXCEPT ![c] = "cleared"]
        /\ sendRequestResult' = [sendRequestResult EXCEPT ![c] = AwaitOutcome(timer[c], fs)]
        /\ opResult' = [opResult EXCEPT
                           ![c] = Returned(op[c], request[c], AwaitOutcome(timer[c], fs))]
    ELSE UNCHANGED <<timer, sendRequestResult, opResult>>

\* the response of fetch i of call c arrives
FetchResponds(c, i, status) ==
    /\ i \in 1..Len(fetches[c])
    /\ fetches[c][i].state = "pending"
    /\ fetches' = [fetches EXCEPT ![c][i].state = "fulfilled", ![c][i].status = status]
    /\ Settle(c, fetches'[c])
    /\ UNCHANGED <<arrayProperties, op, request, dispatched, sessionResult>>

\* fetch i of call c fails with a network error
FetchFails(c, i) ==
    /\ i \in 1..Len(fetches[c])
    /\ fetches[c][i].state = "pending"
    /\ fetches' = [fetches EXCEPT ![c][i].state = "rejected"]
    /\ Settle(c, fetches'[c])
    /\ UNCHANGED <<arrayProperties, op, request, dispatched, sessionResult>>

\* TimeoutFires aborting the requests still in flight (an AbortController
\* signalled by the timeout)
TimeoutFiresAborts(c) ==
    /\ timer[c] = "armed"
    /\ timer' = [timer EXCEPT ![c] = "fired"]
    /\ fetches' = [fetches EXCEPT
                      ![c] = [i \in 1..Len(fetches[c]) |->
                                 IF fetches[c][i].state = "pending"
                                     THEN [fetches[c][i] EXCEPT !.state = "rejected"]
                                     ELSE fetches[c][i]]]
    /\ sendRequestResult' = [sendRequestResult EXCEPT
                                ![c] = AwaitOutcome("fired", fetches[c])]
    /\ opResult' = [opResult EXCEPT
                       ![c] = Returned(op[c], request[c], AwaitOutcome("fired", fetches[c]))]
    /\ UNCHANGED <<arrayProperties, op, request, dispatched, sessionResult>>

\* TimeoutFires with one timeout for the whole scrobbler: its firing ends the
\* wait of every call that is waiting
TimeoutFiresShared(c) ==
    /\ timer[c] = "armed"
    /\ timer' = [d \in DOMAIN timer |-> IF timer[d] = "armed" THEN "fired" ELSE timer[d]]
    /\ sendRequestResult' =
          [d \in DOMAIN timer |->
              IF timer[d] = "armed" THEN AwaitOutcome("fired", fetches[d])
              ELSE sendRequestResult[d]]
    /\ opResult' =
          [d \in DOMAIN timer |->
              IF timer[d] = "armed"
                  THEN Returned(op[d], request[d], AwaitOutcome("fired", fetches[d]))
                  ELSE opResult[d]]
    /\ UNCHANGED <<arrayProperties, op, request, dispatched, fetches, sessionResult>>

\* REQUEST_TIMEOUT elapses before the raced promise has settled
TimeoutFires(c) ==
    /\ timer[c] = "armed"
    /\ timer' = [timer EXCEPT ![c] = "fired"]
    /\ sendRequestResult' = [sendRequestResult EXCEPT
                                ![c] = AwaitOutcome("fired", fetches[c])]
    /\ opResult' = [opResult EXCEPT
                       ![c] = Returned(op[c], request[c], AwaitOutcome("fired", fetches[c]))]
    /\ UNCHANGED <<arrayProperties, op, request, dispatched, fetches, sessionResult>>

Next ==
    \/ getSession
    \/ \E c \in CallIds, song \in Songs, now \in Clock : sendNowPlaying(c, song, now)
    \/ \E c \in CallIds, song \in Songs, now \in Clock : sendPaused(c, song, now)
    \/ \E c \in CallIds, song \in Songs, now \in Clock : sendResumedPlaying(c, song, now)
    \/ \E c \in CallIds, songs \in SongLists, currentlyPlaying \in BOOLEAN, now \in Clock :
          scrobble(c, songs, currentlyPlaying, now)
    \/ \E c \in CallIds, song \in Songs, isLoved \in BOOLEAN, now \in Clock :
          toggleLove(c, song, isLoved, now)
    \/ \E c \in CallIds, i \in 1..MaxDests, status \in Statuses : FetchResponds(c, i, status)
    \/ \E c \in CallIds, i \in 1..MaxDests : FetchFails(c, i)
    \/ \E c \in CallIds : TimeoutFires(c)

Spec == Init /\ [][Next]_vars

(***************************************************************************)
(* Overlapping calls: the host invokes a second operation while the first  *)
(* is waiting or after it has returned.  Both calls read the same          *)
(* arrayProperties; each has its own request, promises and timeout.        *)
(***************************************************************************)
OverlapCallIds == 1..OverlapCalls

\* songs of the overlapping calls: "a" and U+3042
OverlapSongs == {[track |-> <<97>>], [track |-> <<12354>>]}

\* the value Date.now() returns to the overlapping calls
OverlapNow == [s |-> 1700000000, ms |-> 0]

\* statuses the destinations answer overlapping calls with
OverlapStatuses == {200, 404}

InitOverlap ==
    /\ arrayProperties \in Configs
    /\ op = [c \in OverlapCallIds |-> "none"]
    /\ request = [c \in OverlapCallIds |-> NoRequest]
    /\ dispatched = [c \in OverlapCallIds |-> 0]
    /\ fetches = [c \in OverlapCallIds |-> <<>>]
    /\ timer = [c \in OverlapCallIds |-> "unset"]
    /\ sendRequestResult = [c \in OverlapCallIds |-> "none"]
    /\ opResult = [c \in OverlapCallIds |-> [state |-> "none", value |-> <<>>]]
    /\ sessionResult = [state |-> "none", sessionID |-> ""]

NextOverlap ==
    \/ \E c \in OverlapCallIds, song \in OverlapSongs : sendNowPlaying(c, song, OverlapNow)
    \/ \E c \in OverlapCallIds, song \in OverlapSongs : sendPaused(c, song, OverlapNow)
    \/ \E c \in OverlapCallIds, song \in OverlapSongs :
          sendResumedPlaying(c, song, OverlapNow)
    \/ \E c \in OverlapCallIds, song \in OverlapSongs :
          scrobble(c, <<song>>, TRUE, OverlapNow)
    \/ \E c \in OverlapCallIds, song \in OverlapSongs :
          toggleLove(c, song, TRUE, OverlapNow)
    \/ \E c \in OverlapCallIds, i \in 1..MaxDests, status \in OverlapStatuses :
          FetchResponds(c, i, status)
    \/ \E c \in OverlapCallIds, i \in 1..MaxDests : FetchFails(c, i)
    \/ \E c \in OverlapCallIds : TimeoutFires(c)

SpecOverlap == InitOverlap /\ [][NextOverlap]_vars


(***************************************************************************)
(* Properties.                                                             *)
(***************************************************************************)
\* the calls that have been invoked
Calls == {c \in CallIds : op[c] # "none"}

\* arrayProperties is absent or empty
DestinationsEmpty ==
    IF arrayProperties.defined THEN arrayProperties.items = <<>> ELSE TRUE

\* every fetch of call c has completed with status 200
AllAnswered200(c) ==
    \A i \in 1..Len(fetches[c]) :
        fetches[c][i].state = "fulfilled" /\ fetches[c][i].status = 200

\* some fetch of call c has completed with a status other than 200
SomeAnswerNot200(c) ==
    \E i \in 1..Len(fetches[c]) :
        fetches[c][i].state = "fulfilled" /\ fetches[c][i].status # 200

\* C1: with arrayProperties absent or empty, every operation resolves to
\* ERROR_AUTH (scrobble: to an array holding ERROR_AUTH in each of its
\* songs.length slots) and the call issues no fetch.
C1_EmptyDestinationsGiveErrorAuth ==
    \A c \in Calls :
        DestinationsEmpty =>
            /\ sendRequestResult[c] = ERROR_AUTH
            /\ fetches[c] = <<>>
            /\ timer[c] = "unset"
            /\ opResult[c].state = "fulfilled"
            /\ IF op[c] = "scrobble"
                  THEN /\ Len(opResult[c].value) = Len(request[c].data.songs)
                       /\ \A i \in 1..Len(opResult[c].value) :
                              opResult[c].value[i] = ERROR_AUTH
                  ELSE opResult[c].value = ERROR_AUTH

C1_Witness ==
    \E c \in Calls :
        /\ ~arrayProperties.defined
        /\ op[c] = "scrobble"
        /\ Len(request[c].data.songs) = 2
        /\ opResult[c].state = "fulfilled"
        /\ opResult[c].value = <<ERROR_AUTH, ERROR_AUTH>>

\* C2: when every destination's request has completed with status 200 and
\* the timeout has not fired, sendRequest has resolved to RESULT_OK.
C2_AllOkGivesResultOk ==
    \A c \in Calls :
        (fetches[c] # <<>> /\ AllAnswered200(c) /\ timer[c] # "fired")
            => sendRequestResult[c] = RESULT_OK

C2_Witness ==
    \E c \in Calls :
        /\ Len(fetches[c]) = 2
        /\ AllAnswered200(c)
        /\ timer[c] = "cleared"
        /\ sendRequestResult[c] = RESULT_OK
        /\ op[c] = "sendNowPlaying"

\* C3: once some destination has answered with a status other than 200,
\* sendRequest never resolves to RESULT_OK: it is pending or ERROR_OTHER, and
\* it is ERROR_OTHER as soon as no request of the call is pending any more.
C3_NonOkStatusGivesErrorOther ==
    \A c \in Calls :
        SomeAnswerNot200(c) =>
            /\ sendRequestResult[c] \in {"pending", ERROR_OTHER}
            /\ (\A i \in 1..Len(fetches[c]) : fetches[c][i].state # "pending")
                  => sendRequestResult[c] = ERROR_OTHER

C3_Witness ==
    \E c \in Calls :
        /\ Len(fetches[c]) = 2
        /\ fetches[c][1].state = "fulfilled" /\ fetches[c][1].status = 200
        /\ fetches[c][2].state = "fulfilled" /\ fetches[c][2].status = 201
        /\ timer[c] = "cleared"
        /\ sendRequestResult[c] = ERROR_OTHER

\* C4: once the timeout has fired, sendRequest has resolved to ERROR_OTHER,
\* also when requests had completed with 200 before and when all of them
\* complete with 200 afterwards.
C4_TimeoutGivesErrorOther ==
    \A c \in Calls : timer[c] = "fired" => sendRequestResult[c] = ERROR_OTHER

C4_Witness ==
    \E c \in Calls :
        /\ timer[c] = "fired"
        /\ Len(fetches[c]) = 2
        /\ AllAnswered200(c)
        /\ sendRequestResult[c] = ERROR_OTHER

\* C5: sendRequest resolves to RESULT_OK only with a non-empty destination
\* list, one request per destination, every request completed with status
\* 200, and the timeout not fired.
C5_ResultOkOnlyIfAllOk ==
    \A c \in Calls :
        sendRequestResult[c] = RESULT_OK =>
            /\ ~DestinationsEmpty
            /\ Len(fetches[c]) = Len(arrayProperties.items)
            /\ AllAnswered200(c)
            /\ timer[c] = "cleared"

C5_Witness ==
    \E c \in Calls :
        /\ sendRequestResult[c] = RESULT_OK
        /\ op[c] = "toggleLove"
        /\ Len(arrayProperties.items) = 2
        /\ opResult[c].state = "fulfilled"
        /\ opResult[c].value = RESULT_OK

(***************************************************************************)
(* The reader of a stored file: atob and JSON.parse.                       *)
(***************************************************************************)
RECURSIVE atob(_)
atob(text) ==
    IF Len(text) = 0 THEN <<>>
    ELSE
        LET a == text[1]
            b == text[2]
            c == text[3]
            d == text[4]
            rest == SubSeq(text, 5, Len(text))
        IN  IF c = 64 THEN <<a * 4 + (b \div 16)>>
            ELSE IF d = 64 THEN <<a * 4 + (b \div 16), (b % 16) * 16 + (c \div 4)>>
            ELSE <<a * 4 + (b \div 16), (b % 16) * 16 + (c \div 4), (c % 4) * 64 + d>>
                 \o atob(rest)

EventNames == {"nowplaying", "paused", "resumedplaying", "scrobble", "loved"}

\* the values JSON.parse can return for request.data: no property of a
\* parsed object is undefined
JSONData ==
    [song : Songs]
    \cup [song : Songs, isLoved : BOOLEAN]
    \cup [song : Songs, songs : SongLists, currentlyPlaying : BOOLEAN]
    \cup [songs : SongLists, currentlyPlaying : BOOLEAN]

SyntaxError == [eventName |-> "SyntaxError"]

\* JSON.parse of the text of a request: the value whose text it is
JSONparse(text) ==
    LET heads == {h \in [eventName : EventNames, time : Clock] :
                    LET prefix == CodeUnits["{\"eventName\":\""] \o CodeUnits[h.eventName]
                                  \o CodeUnits["\",\"time\":"] \o TimeUnits(h.time)
                                  \o CodeUnits[",\"data\":"]
                    IN  /\ Len(prefix) < Len(text)
                        /\ SubSeq(text, 1, Len(prefix)) = prefix}
        events == {e \in [eventName : EventNames, time : Clock, data : JSONData] :
                    /\ [eventName |-> e.eventName, time |-> e.time] \in heads
                    /\ JSONstringify(e) = text}
    IN  IF events = {} THEN SyntaxError ELSE CHOOSE e \in events : TRUE

\* C6: with a non-empty destination list a call of sendRequest never
\* rejects: every failure is turned into the resolved value ERROR_OTHER.
C6_SendRequestNeverRejects ==
    \A c \in Calls : ~DestinationsEmpty => sendRequestResult[c] # "rejected"

\* C7: scrobble performs exactly one sendRequest call and resolves to an
\* array of songs.length slots, each holding the outcome of that call.
C7_ScrobbleReplicatesOutcome ==
    \A c \in Calls :
        op[c] = "scrobble" =>
            /\ dispatched[c] = 1
            /\ opResult[c].state \in {"pending", "fulfilled"}
            /\ opResult[c].state = "pending" <=> sendRequestResult[c] = "pending"
            /\ opResult[c].state = "fulfilled" =>
                  /\ Len(opResult[c].value) = Len(request[c].data.songs)
                  /\ \A i \in 1..Len(opResult[c].value) :
                         opResult[c].value[i] = sendRequestResult[c]

\* C8: with a non-empty destination list the body is always built, and the
\* content sent to each destination, base64-decoded and JSON-parsed, equals
\* the request.
C8_ContentRoundTrip ==
    \A c \in Calls :
        ~DestinationsEmpty =>
            /\ sendRequestResult[c] # "rejected"
            /\ Len(fetches[c]) = Len(arrayProperties.items)
            /\ \A i \in 1..Len(fetches[c]) :
                   JSONparse(atob(fetches[c][i].call.body.content)) = request[c]

\* the year/month/weekday/epoch-millis text of each clock value, taken from
\* the calendar: 2023-11-14 was a Tuesday, 2000-02-29 a Tuesday, 2023-12-31
\* a Sunday, 2024-01-01 a Monday
CalendarPath(t) ==
    CASE t = [s |-> 1700000000, ms |-> 0] -> "2023/10/2/1700000000000"
      [] t = [s |-> 951782400, ms |-> 5] -> "2000/1/2/951782400005"
      [] t = [s |-> 1704067199, ms |-> 999] -> "2023/11/0/1704067199999"
      [] t = [s |-> 1704067200, ms |-> 0] -> "2024/0/1/1704067200000"

\* owner/repo of each configured applicationName
RepoPath(props) ==
    CASE props.applicationName = <<"a", "/", "m">> -> "a/m"
      [] props.applicationName = <<"b", "/", "n">> -> "b/n"

C10_SessionFollowsDestinations ==
    /\ [](sessionResult.state # "none" =>
            IF DestinationsEmpty
                THEN sessionResult.state = "rejected"
                ELSE sessionResult = [state |-> "fulfilled", sessionID |-> "webhook"])
    /\ [][sessionResult' # sessionResult =>
            UNCHANGED <<fetches, timer, sendRequestResult, opResult, dispatched>>]_vars

C10_Witness ==
    /\ sessionResult = [state |-> "fulfilled", sessionID |-> "webhook"]
    /\ Len(arrayProperties.items) = 2
    /\ \E c \in Calls : sendRequestResult[c] = "pending"

(***************************************************************************)
(* The requests of one call, destination by destination.                   *)
(***************************************************************************)
\* the Authorization header that belongs to each configured destination
BearerOf(props) ==
    CASE props.applicationName = <<"a", "/", "m">> -> "Bearer tokenA"
      [] props.applicationName = <<"b", "/", "n">> -> "Bearer tokenB"

\* the URL of request `req` in the repository of destination `props`
RepoUrl(props, req) ==
    "https://api.github.com/repos/" \o RepoPath(props) \o "/contents/" \o StoragePath(req)

\* C11: request i of a call goes to the repository of destination i and
\* carries "Bearer " and the token of destination i; no request carries the
\* token of one destination to the repository of another.
C11_TokenStaysWithItsRepository ==
    \A c \in Calls :
        \A i \in 1..Len(fetches[c]) :
            /\ i <= Len(arrayProperties.items)
            /\ fetches[c][i].call.url = RepoUrl(arrayProperties.items[i], request[c])
            /\ fetches[c][i].call.headers.Authorization = BearerOf(arrayProperties.items[i])
            /\ \A d1 \in Destinations, d2 \in Destinations :
                   (/\ fetches[c][i].call.url = RepoUrl(d1, request[c])
                    /\ fetches[c][i].call.headers.Authorization = BearerOf(d2))
                       => d1 = d2

C11_Witness ==
    \E c \in Calls :
        /\ Len(fetches[c]) = 2
        /\ fetches[c][1].call.url =
              "https://api.github.com/repos/b/n/contents/2024/0/1/1704067200000-loved.json"
        /\ fetches[c][1].call.headers.Authorization = "Bearer tokenB"
        /\ fetches[c][2].call.url =
              "https://api.github.com/repos/a/m/contents/2024/0/1/1704067200000-loved.json"
        /\ fetches[c][2].call.headers.Authorization = "Bearer tokenA"

\* a fetch call without its destination-specific parts
SharedPart(call) ==
    [method |-> call.method,
     headers |-> [h \in DOMAIN call.headers \ {"Authorization"} |-> call.headers[h]],
     body |-> call.body]

\* C12: within one call every request has the same body (message, committer,
\* content), the method PUT and the header Content-Type: application/json;
\* two requests of a call differ in nothing but the owner/repo of the URL and
\* the Authorization header.
C12_BodySharedAcrossDestinations ==
    \A c \in Calls :
        \A i \in 1..Len(fetches[c]) :
            /\ fetches[c][i].call.method = "PUT"
            /\ DOMAIN fetches[c][i].call.headers = {"ContentType", "Authorization"}
            /\ SharedPart(fetches[c][i].call).headers = [ContentType |-> "application/json"]
            /\ fetches[c][i].call.body.message
                  = request[c].eventName \o " at " \o TimeString(request[c].time)
            /\ fetches[c][i].call.body.committer
                  = [name |-> "WebScrobbler", email |-> "webscrobbler@github.com"]
            /\ fetches[c][i].call.body.content = btoa(JSONstringify(request[c])).value
            /\ \A j \in 1..Len(fetches[c]) :
                   /\ SharedPart(fetches[c][i].call) = SharedPart(fetches[c][j].call)
                   /\ arrayProperties.items[i] = arrayProperties.items[j]
                         => fetches[c][i].call = fetches[c][j].call

C12_Witness ==
    \E c \in Calls :
        /\ Len(fetches[c]) = 2
        /\ arrayProperties.items[1] # arrayProperties.items[2]
        /\ fetches[c][1].call.body = fetches[c][2].call.body
        /\ fetches[c][1].call.body.message = "paused at 951782400005"
        /\ fetches[c][1].call.url # fetches[c][2].call.url
        /\ fetches[c][1].call.headers.Authorization
              # fetches[c][2].call.headers.Authorization

(***************************************************************************)
(* The moment a call returns.                                              *)
(***************************************************************************)
\* some request of call c has not completed yet
SomePending(c) == \E i \in 1..Len(fetches[c]) : fetches[c][i].state = "pending"

\* C13: a call that has issued its requests has returned an outcome only if
\* every request has completed (with a response or a failure) or the timeout
\* has elapsed; it has not returned while a request is pending and the timeout
\* has not elapsed, whatever happened to the other requests.
C13_ReturnsOnlyAfterJoinOrTimeout ==
    \A c \in Calls :
        (fetches[c] # <<>> /\ sendRequestResult[c] \in {RESULT_OK, ERROR_OTHER})
            => (~SomePending(c) \/ timer[c] = "fired")

(***************************************************************************)
(* The outcome as a function of the results.                               *)
(***************************************************************************)
\* the result of one destination at the moment the call returns
ResultClass(f) ==
    IF f.state = "fulfilled" THEN (IF f.status = 200 THEN "200" ELSE "non-200")
    ELSE IF f.state = "rejected" THEN "network failure"
    ELSE "no answer"

\* the results of a call, without their order and without their destinations
ResultSet(fs) == {ResultClass(fs[i]) : i \in 1..Len(fs)}

\* the outcome a set of results stands for
OutcomeOfResults(results) == IF results = {"200"} THEN RESULT_OK ELSE ERROR_OTHER

\* call c returns from its await in this step
Returns(c) == sendRequestResult[c] = "pending" /\ sendRequestResult'[c] # "pending"

\* C14: the outcome a call returns is a function of the set of its
\* per-destination results at that moment (200, non-200, network failure, no
\* answer), whatever the order of arrival and the order of the destinations.
C14_OutcomeDependsOnResultSetOnly ==
    [][\A c \in CallIds :
          Returns(c) => sendRequestResult'[c] = OutcomeOfResults(ResultSet(fetches'[c]))]_vars

\* the second destination answered 200 before the first answered 404
C14_Witness ==
    \E c \in Calls :
        /\ Len(fetches[c]) = 2
        /\ arrayProperties.items[1] # arrayProperties.items[2]
        /\ ResultClass(fetches[c][1]) = "non-200"
        /\ ResultClass(fetches[c][2]) = "200"
        /\ timer[c] = "cleared"
        /\ sendRequestResult[c] = ERROR_OTHER

(***************************************************************************)
(* Termination of a call.                                                  *)
(***************************************************************************)
\* call c has resolved to an outcome
Resolved(c) == sendRequestResult[c] \in {RESULT_OK, ERROR_AUTH, ERROR_OTHER}

\* C15: every call that is invoked resolves to an outcome no later than the
\* firing of its timeout: it has resolved, or it waits with its timeout
\* running, and it has resolved once the timeout has fired; it keeps the
\* outcome it resolved to, and its timeout is started once and never again.
C15_EveryCallResolvesByTimeout ==
    /\ [](\A c \in Calls :
            /\ Resolved(c) \/ (sendRequestResult[c] = "pending" /\ timer[c] = "armed")
            /\ timer[c] = "fired" => Resolved(c))
    /\ [][\A c \in CallIds :
            /\ Resolved(c) => sendRequestResult'[c] = sendRequestResult[c]
            /\ (timer'[c] = "armed" /\ timer[c] # "armed") => timer[c] = "unset"]_vars

(***************************************************************************)
(* Requests in flight when the timeout fires.                              *)
(***************************************************************************)
\* C16: the firing of the timeout leaves the requests of the call as they
\* are, a request still pending after it can complete with status 200, and no
\* completion after the timeout changes the outcome the call has returned.
C16_TimeoutAbandonsWithoutCancelling ==
    /\ [](\A c \in Calls :
            \A i \in 1..Len(fetches[c]) :
                (timer[c] = "fired" /\ fetches[c][i].state = "pending")
                    => ENABLED FetchResponds(c, i, 200))
    /\ [][\A c \in CallIds :
            /\ (timer[c] = "armed" /\ timer'[c] = "fired") => fetches'[c] = fetches[c]
            /\ timer[c] = "fired" =>
                  /\ timer'[c] = "fired"
                  /\ sendRequestResult'[c] = sendRequestResult[c]
                  /\ opResult'[c] = opResult[c]]_vars

\* a scrobble timed out and its one request completed with 200 afterwards
C16_Witness ==
    \E c \in Calls :
        /\ op[c] = "scrobble"
        /\ timer[c] = "fired"
        /\ Len(fetches[c]) = 1
        /\ fetches[c][1].state = "fulfilled" /\ fetches[c][1].status = 200
        /\ sendRequestResult[c] = ERROR_OTHER
        /\ opResult[c] = [state |-> "fulfilled", value |-> <<ERROR_OTHER>>]

(***************************************************************************)
(* The number of requests of a call.                                       *)
(***************************************************************************)
\* C17: a call with N configured destinations issues exactly N PUT requests,
\* one to each destination, all of them in the one step before any response
\* is looked at, and from then on no request is added or issued again: no
\* operation calls sendRequest twice.
C17_OneRequestPerDestinationNoRetry ==
    /\ [](\A c \in Calls :
            /\ dispatched[c] = 1
            /\ ~DestinationsEmpty =>
                  /\ Len(fetches[c]) = Len(arrayProperties.items)
                  /\ \A i \in 1..Len(fetches[c]) :
                         /\ fetches[c][i].call.method = "PUT"
                         /\ fetches[c][i].call.url
                               = RepoUrl(arrayProperties.items[i], request[c]))
    /\ [][\A c \in CallIds :
            /\ (fetches[c] = <<>> /\ fetches'[c] # <<>>) =>
                  \A i \in 1..Len(fetches'[c]) : fetches'[c][i].state = "pending"
            /\ fetches[c] # <<>> =>
                  /\ Len(fetches'[c]) = Len(fetches[c])
                  /\ \A i \in 1..Len(fetches[c]) :
                         fetches'[c][i].call = fetches[c][i].call
            /\ op[c] # "none" => dispatched'[c] = dispatched[c]]_vars

(***************************************************************************)
(* ERROR_AUTH and getSession.                                              *)
(***************************************************************************)
\* C19: an operation returns ERROR_AUTH exactly when arrayProperties is
\* absent or empty, and getSession rejects exactly then: in every state
\* getSession has rejected if and only if the operations have returned
\* ERROR_AUTH, and has resolved if and only if they have not.
C19_ErrorAuthAgreesWithGetSession ==
    /\ \A c \in Calls : sendRequestResult[c] = ERROR_AUTH <=> DestinationsEmpty
    /\ sessionResult.state # "none" =>
          /\ sessionResult.state \in {"rejected", "fulfilled"}
          /\ sessionResult.state = "rejected" <=> DestinationsEmpty
          /\ \A c \in Calls :
                 sessionResult.state = "rejected" <=> sendRequestResult[c] = ERROR_AUTH

\* an empty list: getSession rejected and toggleLove returned ERROR_AUTH
C19_Witness ==
    /\ arrayProperties = [defined |-> TRUE, items |-> <<>>]
    /\ sessionResult.state = "rejected"
    /\ \E c \in Calls : op[c] = "toggleLove" /\ sendRequestResult[c] = ERROR_AUTH

(***************************************************************************)
(* Paths of distinct events.                                               *)
(***************************************************************************)
\* timestamps of other events: the values of the clock, and 2023-11-14
\* 22:13:20.001, 22:13:21.000 and 2023-11-21 22:13:20.000, which share the
\* year, the month and the weekday of 2023-11-14 22:13:20.000
PathClock ==
    Clock \cup {[s |-> 1700000000, ms |-> 1], [s |-> 1700000001, ms |-> 0],
                [s |-> 1700604800, ms |-> 0]}

\* year, zero-based month and weekday of a timestamp
Folder(t) == <<getUTCFullYear(t), getUTCMonth(t), getUTCDay(t)>>

\* C20: the URL of a request is the URL derived, for the same destination,
\* from an event name and a timestamp if and only if these are the name and
\* the timestamp of the request's own event: events that differ in name or
\* timestamp get different paths, the same name and timestamp the same path.
C20_PathsCollisionFree ==
    \A c \in Calls :
        \A i \in 1..Len(fetches[c]) :
            \A e \in EventNames, t \in PathClock :
                (fetches[c][i].call.url
                    = targetUrl(arrayProperties.items[i], [eventName |-> e, time |-> t]))
                <=> (e = request[c].eventName /\ t = request[c].time)

\* a request was issued for an event that shares its folder with events of
\* other timestamps
C20_Witness ==
    \E c \in Calls :
        /\ Len(fetches[c]) = 2
        /\ request[c].eventName = "resumedplaying"
        /\ request[c].time = [s |-> 1700000000, ms |-> 0]
        /\ Cardinality({t \in PathClock : Folder(t) = Folder(request[c].time)}) = 4
        /\ fetches[c][1].call.url =
              "https://api.github.com/repos/a/m/contents/2023/10/2/1700000000000-resumedplaying.json"

(***************************************************************************)
(* Calls that overlap.                                                     *)
(***************************************************************************)
\* everything call c owns, in this state and in the next
CallState(c) ==
    <<op[c], request[c], dispatched[c], fetches[c], timer[c], sendRequestResult[c],
      opResult[c]>>

CallStateNext(c) ==
    <<op'[c], request'[c], dispatched'[c], fetches'[c], timer'[c], sendRequestResult'[c],
      opResult'[c]>>

\* C18: no call changes arrayProperties; a call returns ERROR_AUTH at its
\* invocation exactly when arrayProperties is absent or empty, and otherwise
\* returns the outcome of the results of its own requests; and a step of one
\* call (its invocation, an answer or a failure of one of its requests, its
\* timeout) changes nothing of any other call, earlier, later or concurrent.
C18_CallsDoNotInfluenceEachOther ==
    /\ [][arrayProperties' = arrayProperties]_vars
    /\ [](\A c \in DOMAIN op :
            /\ (op[c] # "none" /\ DestinationsEmpty) => sendRequestResult[c] = ERROR_AUTH
            /\ sendRequestResult[c] = ERROR_AUTH => DestinationsEmpty
            /\ \A i \in 1..Len(fetches[c]) :
                   /\ i <= Len(arrayProperties.items)
                   /\ fetches[c][i].call.url = RepoUrl(arrayProperties.items[i], request[c])
                   /\ fetches[c][i].call.body.content
                         = btoa(JSONstringify(request[c])).value)
    /\ [][\A c \in DOMAIN op :
            /\ Returns(c) =>
                  sendRequestResult'[c] = OutcomeOfResults(ResultSet(fetches'[c]))
            /\ \A d \in DOMAIN op \ {c} :
                   CallStateNext(c) # CallState(c) => CallStateNext(d) = CallState(d)]_vars

\* the first call timed out with one request answered 404 and the other still
\* in flight; the second call, invoked meanwhile, got 200 from both
\* destinations and returned RESULT_OK
C18_Witness ==
    /\ DOMAIN op = 1..2
    /\ Len(arrayProperties.items) = 2
    /\ timer[1] = "fired"
    /\ sendRequestResult[1] = ERROR_OTHER
    /\ fetches[1][1].state = "fulfilled" /\ fetches[1][1].status = 404
    /\ fetches[1][2].state = "pending"
    /\ Len(fetches[2]) = 2
    /\ \A i \in 1..2 : fetches[2][i].state = "fulfilled" /\ fetches[2][i].status = 200
    /\ timer[2] = "cleared"
    /\ sendRequestResult[2] = RESULT_OK

====
